---- MODULE Spec2Model ----
(***************************************************************************)
(* State-machine model of monitor.js: load config.json, probe every site  *)
(* concurrently, then evaluate the results in list order and POST one      *)
(* webhook per down site, then exit.                                       *)
(*                                                                         *)
(* JSON values are modelled by their JavaScript source text ("undefined"   *)
(* for a missing property), site entries and documents by records.         *)
(***************************************************************************)
EXTENDS Integers, Sequences, FiniteSets, TLC

VARIABLES file, pc, config, webhook, sites, launched, gets, responses, results,
          now, clock, iter, posts, log, exitCode

vars == <<file, pc, config, webhook, sites, launched, gets, responses, results,
          now, clock, iter, posts, log, exitCode>>

\* ---- bounds ----
MaxSites == 2
MaxClock == 1

\* statusCode: null (line 48); HTTP status codes are never 0
null == 0

\* ---- universe of inputs ----
\* HTTP status codes a probed site may answer with
Statuses == {200, 503}

\* res.ok of node-fetch: status in the range 200..299
ok(status) == status >= 200 /\ status < 300

\* fetch() only issues a request for an absolute http(s) URL; any other
\* first argument makes it reject without a request
IsAbsoluteUrl(u) == u \in {"http://a.test", "http://b.test", "http://hook.test"}

\* JavaScript ToBoolean on the JSON values used for `webhook`
Truthy(v) == v \notin {"undefined", "null", "''", "0", "false"}

\* typeof v === "string"
IsString(v) == v \in {"''", "'abc'", "http://a.test", "http://b.test", "http://hook.test"}

\* values the "webhook" property of config.json may hold
WebhookValues == {"undefined", "null", "''", "123", "'abc'", "http://hook.test"}

\* expectedStatus values: [type, elems]; for a string, elems are its characters (digits)
ExpArray(s) == [type |-> "array", elems |-> s]
ExpString(s) == [type |-> "string", elems |-> s]
ExpUndefined == [type |-> "undefined", elems |-> <<>>]

\* the entries a "sites" array may hold
SiteEntries ==
  { [type |-> "object", name |-> "A", url |-> "http://a.test", expectedStatus |-> ExpArray(<<200>>)],
    [type |-> "object", name |-> "B", url |-> "http://b.test", expectedStatus |-> ExpUndefined],
    [type |-> "object", name |-> "C", url |-> "http://a.test", expectedStatus |-> ExpString(<<2, 0, 0>>)],
    [type |-> "number", name |-> "undefined", url |-> "undefined", expectedStatus |-> ExpUndefined],
    [type |-> "null", name |-> "undefined", url |-> "undefined", expectedStatus |-> ExpUndefined] }

SiteLists == UNION { [1..n -> SiteEntries] : n \in 0..MaxSites }

\* the value of the "sites" property
SitesValues ==
  { [isArray |-> FALSE, items |-> <<>>] } \cup { [isArray |-> TRUE, items |-> l] : l \in SiteLists }

NoSites == [isArray |-> FALSE, items |-> <<>>]

\* parsed documents: null, a scalar or array (no own webhook/sites), or an object
Documents ==
  { [type |-> "null", webhook |-> "undefined", sites |-> NoSites],
    [type |-> "scalar", webhook |-> "undefined", sites |-> NoSites] }
  \cup { [type |-> "object", webhook |-> w, sites |-> s] : w \in WebhookValues, s \in SitesValues }

NoDocument == [type |-> "unset", webhook |-> "undefined", sites |-> NoSites]

\* config.json on disk
Files ==
  { [state |-> st, doc |-> NoDocument] : st \in {"absent", "unreadable", "garbage"} }
  \cup { [state |-> "json", doc |-> d] : d \in Documents }

\* ---- helpers ----
\* decimal digits of a three-digit status code (the string form of res.status)
StatusDigits(n) == << n \div 100, (n \div 10) % 10, n % 10 >>

\* String.prototype.includes: sub occurs in str
IsSubstring(sub, str) ==
  \E off \in 0..(Len(str) - Len(sub)) :
    \A j \in 1..Len(sub) : str[off + j] = sub[j]

\* site.expectedStatus.includes exists (arrays and strings only)
HasIncludes(exp) == exp.type \in {"array", "string"}

\* includes with the comparison inverted
includes_inverted(exp, status) ==
  IF exp.type = "array" THEN \E j \in 1..Len(exp.elems) : exp.elems[j] # status
  ELSE ~IsSubstring(StatusDigits(status), exp.elems)

\* site.expectedStatus.includes(res.status)
includes(exp, status) ==
  IF exp.type = "array" THEN \E j \in 1..Len(exp.elems) : exp.elems[j] = status
  ELSE IsSubstring(StatusDigits(status), exp.elems)

\* fetch(site.url, ...) issues a GET: site.url readable and an absolute URL
fetchIssuesGet(site) == site.type # "null" /\ IsAbsoluteUrl(site.url)

\* outcomes of fetch: a response with a status, or a rejection
Responses == { [received |-> TRUE, status |-> s] : s \in Statuses }
Rejection == [received |-> FALSE, status |-> null]

FetchOutcomes(site) == IF fetchIssuesGet(site) THEN Responses \cup {Rejection} ELSE {Rejection}

\* checkSite(site) given the outcome of its fetch
checkSite(site, res) ==
  IF site.type = "null" \/ ~res.received \/ ~HasIncludes(site.expectedStatus)
  THEN [up |-> FALSE, statusCode |-> null]
  ELSE [up |-> includes(site.expectedStatus, res.status), statusCode |-> res.status]

\* Promise.all: the value of the k-th promise lands at index k
PromiseAll(rs, k, r) == rs @@ (k :> r)

\* sendWebhook called without await
Suspended_noawait(ps) == FALSE

\* await sendWebhook(payload): the loop is suspended while a POST is pending
Suspended(ps) == \E p \in 1..Len(ps) : ps[p].state = "pending"

\* status codes the webhook endpoint may answer with
WebhookStatuses == {200, 500}

\* outcomes of the POST: a response with res.ok, a response without, or a
\* rejection (network failure, timeout, or a webhook that is no URL)
WebhookOutcomes(w) ==
  IF IsAbsoluteUrl(w)
  THEN { IF ok(s) THEN "ok" ELSE "notok" : s \in WebhookStatuses } \cup {"failed"}
  ELSE {"failed"}

\* sendWebhook rethrowing from its catch block
sendWebhook_rethrow(outcome) == IF outcome = "failed" THEN "rejected" ELSE "fulfilled"

\* sendWebhook: how its promise settles for each outcome of the POST
sendWebhook(outcome) == "fulfilled"

\* payload built in main for a down result
Payload(site, statusCode, ts) ==
  [siteName |-> site.name, siteUrl |-> site.url, status |-> "DOWN",
   httpCode |-> statusCode, timestamp |-> ts]

\* a fresh new Date() per payload
PayloadTimestamp_fresh(n, c) == c

\* timestamp put in the payload: the batch timestamp `now`
PayloadTimestamp(n, c) == n

\* validation joined with && instead of ||
Invalid_and(w, s) == ~Truthy(w) /\ ~s.isArray

\* validation that also rejects an empty sites array
Invalid_nonempty(w, s) == ~Truthy(w) \/ ~s.isArray \/ s.items = <<>>

\* the validation of the two top-level fields
Invalid(w, s) == ~Truthy(w) \/ ~s.isArray

N == Len(sites.items)

\* ---- initial state ----
Init ==
  /\ file \in Files
  /\ pc = "load"
  /\ config = NoDocument
  /\ webhook = "undefined"
  /\ sites = NoSites
  /\ launched = 0
  /\ gets = <<>>
  /\ responses = <<>>
  /\ results = <<>>
  /\ now = 0
  /\ clock = 0
  /\ iter = 0
  /\ posts = <<>>
  /\ log = <<>>
  /\ exitCode = 0

exit(code) ==
  /\ pc' = "exited"
  /\ exitCode' = code

\* ---- actions ----
\* lines 18-24
LoadConfig ==
  /\ pc = "load"
  /\ IF file.state = "json"
     THEN /\ config' = file.doc
          /\ pc' = "destructure"
          /\ UNCHANGED exitCode
     ELSE /\ exit(1)
          /\ UNCHANGED config
  /\ UNCHANGED <<file, webhook, sites, launched, gets, responses, results, now, clock, iter, posts, log>>

\* line 25: destructuring null throws at top level (uncaught, exit code 1)
Destructure ==
  /\ pc = "destructure"
  /\ IF config.type = "null"
     THEN /\ exit(1)
          /\ UNCHANGED <<webhook, sites>>
     ELSE /\ webhook' = config.webhook
          /\ sites' = config.sites
          /\ pc' = "validate"
          /\ UNCHANGED exitCode
  /\ UNCHANGED <<file, config, launched, gets, responses, results, now, clock, iter, posts, log>>

\* lines 26-29
Validate ==
  /\ pc = "validate"
  /\ IF Invalid(webhook, sites)
     THEN exit(1)
     ELSE /\ pc' = "map"
          /\ UNCHANGED exitCode
  /\ UNCHANGED <<file, config, webhook, sites, launched, gets, responses, results, now, clock, iter, posts, log>>

\* a callback that issues its GET a second time (a retry)
MapSite_retry ==
  /\ pc = "map"
  /\ launched < N
  /\ launched' = launched + 1
  /\ gets' = IF fetchIssuesGet(sites.items[launched + 1])
             THEN gets \o <<launched + 1, launched + 1>> ELSE gets
  /\ UNCHANGED <<file, pc, config, webhook, sites, responses, results, now, clock, iter, posts, log, exitCode>>

\* lines 85-86 with 39-43: the synchronous part of one sites.map callback
MapSite ==
  /\ pc = "map"
  /\ launched < N
  /\ launched' = launched + 1
  /\ gets' = IF fetchIssuesGet(sites.items[launched + 1])
             THEN Append(gets, launched + 1) ELSE gets
  /\ UNCHANGED <<file, pc, config, webhook, sites, responses, results, now, clock, iter, posts, log, exitCode>>

\* line 84: map returned, main awaits Promise.all
AwaitAll ==
  /\ pc = "map"
  /\ launched = N
  /\ pc' = "all"
  /\ UNCHANGED <<file, config, webhook, sites, launched, gets, responses, results, now, clock, iter, posts, log, exitCode>>

\* results pushed in completion order and paired with the sites by position
CheckSettle_completionOrder(k) ==
  /\ pc = "all"
  /\ k \in 1..launched
  /\ Cardinality(DOMAIN results) < N
  /\ \A j \in 1..Len(responses) : responses[j].site # k
  /\ \E res \in FetchOutcomes(sites.items[k]) :
       LET c == checkSite(sites.items[k], res)
           at == Cardinality(DOMAIN results) + 1
       IN /\ results' = PromiseAll(results, at, [site |-> at, up |-> c.up, statusCode |-> c.statusCode])
          /\ responses' = Append(responses, [site |-> k, received |-> res.received, status |-> res.status])
  /\ UNCHANGED <<file, pc, config, webhook, sites, launched, gets, now, clock, iter, posts, log, exitCode>>

\* callbacks sharing one `site` variable, left at the last entry of the list
CheckSettle_sharedSite(k) ==
  /\ pc = "all"
  /\ k \in 1..launched
  /\ Cardinality(DOMAIN results) < N
  /\ \A j \in DOMAIN results : results[j].site # k
  /\ \E res \in FetchOutcomes(sites.items[k]) :
       LET c == checkSite(sites.items[N], res)
       IN /\ results' = PromiseAll(results, k, [site |-> k, up |-> c.up, statusCode |-> c.statusCode])
          /\ responses' = Append(responses, [site |-> k, received |-> res.received, status |-> res.status])
  /\ UNCHANGED <<file, pc, config, webhook, sites, launched, gets, now, clock, iter, posts, log, exitCode>>

\* lines 38-50, 86-87: one check settles, in any order
CheckSettle(k) ==
  /\ pc = "all"
  /\ k \in 1..launched
  /\ Cardinality(DOMAIN results) < N
  /\ \A j \in DOMAIN results : results[j].site # k
  /\ \E res \in FetchOutcomes(sites.items[k]) :
       LET c == checkSite(sites.items[k], res)
       IN /\ results' = PromiseAll(results, k, [site |-> k, up |-> c.up, statusCode |-> c.statusCode])
          /\ responses' = Append(responses, [site |-> k, received |-> res.received, status |-> res.status])
  /\ UNCHANGED <<file, pc, config, webhook, sites, launched, gets, now, clock, iter, posts, log, exitCode>>

\* the join resolving on the first settled check (Promise.race in place of Promise.all)
AllSettled_first ==
  /\ pc = "all"
  /\ (Cardinality(DOMAIN results) >= 1 \/ N = 0)
  /\ now' = clock
  /\ pc' = "loop"
  /\ UNCHANGED <<file, config, webhook, sites, launched, gets, responses, results, clock, iter, posts, log, exitCode>>

\* lines 84, 91: Promise.all fulfilled, the batch timestamp is taken
AllSettled ==
  /\ pc = "all"
  /\ Cardinality(DOMAIN results) = N
  /\ now' = clock
  /\ pc' = "loop"
  /\ UNCHANGED <<file, config, webhook, sites, launched, gets, responses, results, clock, iter, posts, log, exitCode>>

\* the loop reading site?.name and site?.url, so that a null entry does not throw
LoopStep_optional ==
  /\ pc = "loop"
  /\ iter < Len(results)
  /\ ~Suspended(posts)
  /\ LET r == results[iter + 1]
         site == sites.items[r.site]
     IN /\ iter' = iter + 1
        /\ log' = Append(log, [site |-> r.site, line |-> IF r.up THEN "UP" ELSE "DOWN",
                               code |-> r.statusCode])
        /\ posts' = IF r.up THEN posts
                    ELSE Append(posts, [site |-> r.site,
                                        payload |-> Payload(site, r.statusCode, PayloadTimestamp(now, clock)),
                                        state |-> "pending"])
        /\ UNCHANGED <<pc, exitCode>>
  /\ UNCHANGED <<file, config, webhook, sites, launched, gets, responses, results, now, clock>>

\* lines 92-111: one iteration of the for-of loop up to its await
LoopStep ==
  /\ pc = "loop"
  /\ iter < Len(results)
  /\ ~Suspended(posts)
  /\ LET r == results[iter + 1]
         site == sites.items[r.site]
     IN IF site.type = "null"
        THEN /\ exit(1)
             /\ iter' = iter + 1
             /\ UNCHANGED <<posts, log>>
        ELSE /\ iter' = iter + 1
             /\ log' = Append(log, [site |-> r.site, line |-> IF r.up THEN "UP" ELSE "DOWN",
                                    code |-> r.statusCode])
             /\ posts' = IF r.up THEN posts
                         ELSE Append(posts, [site |-> r.site,
                                             payload |-> Payload(site, r.statusCode, PayloadTimestamp(now, clock)),
                                             state |-> "pending"])
             /\ UNCHANGED <<pc, exitCode>>
  /\ UNCHANGED <<file, config, webhook, sites, launched, gets, responses, results, now, clock>>

\* lines 63-79, 105: the POST settles, sendWebhook returns
WebhookSettle ==
  /\ pc = "loop"
  /\ \E p \in 1..Len(posts) :
       /\ posts[p].state = "pending"
       /\ \E o \in WebhookOutcomes(webhook) :
            /\ posts' = [posts EXCEPT ![p].state = o]
            /\ IF sendWebhook(o) = "fulfilled"
               THEN UNCHANGED <<pc, exitCode>>
               ELSE exit(1)
  /\ UNCHANGED <<file, config, webhook, sites, launched, gets, responses, results, now, clock, iter, log>>

\* main scheduling another batch instead of exiting
LoopDone_restart ==
  /\ pc = "loop"
  /\ iter = Len(results)
  /\ ~Suspended(posts)
  /\ pc' = "map"
  /\ launched' = 0
  /\ gets' = <<>>
  /\ responses' = <<>>
  /\ results' = <<>>
  /\ iter' = 0
  /\ posts' = <<>>
  /\ log' = <<>>
  /\ UNCHANGED <<file, config, webhook, sites, now, clock, exitCode>>

\* lines 112, 115-118
LoopDone ==
  /\ pc = "loop"
  /\ iter = Len(results)
  /\ ~Suspended(posts)
  /\ exit(0)
  /\ UNCHANGED <<file, config, webhook, sites, launched, gets, responses, results, now, clock, iter, posts, log>>

\* wall-clock time read by new Date() advances; line 91 is the first read of
\* the clock, so it counts the time elapsed since the join
Tick ==
  /\ pc = "loop"
  /\ clock < MaxClock
  /\ clock' = clock + 1
  /\ UNCHANGED <<file, pc, config, webhook, sites, launched, gets, responses, results, now, iter, posts, log, exitCode>>

Next ==
  \/ LoadConfig
  \/ Destructure
  \/ Validate
  \/ MapSite
  \/ AwaitAll
  \/ \E k \in 1..MaxSites : CheckSettle(k)
  \/ LoopStep
  \/ WebhookSettle
  \/ LoopDone
  \/ AllSettled
  \/ Tick

Spec == Init /\ [][Next]_vars

\* the event loop runs every ready continuation, and every outbound request
\* settles (response, failure or timeout)
Fairness ==
  /\ WF_vars(LoadConfig)
  /\ WF_vars(Destructure)
  /\ WF_vars(Validate)
  /\ WF_vars(MapSite)
  /\ WF_vars(AwaitAll)
  /\ \A k \in 1..MaxSites : WF_vars(CheckSettle(k))
  /\ WF_vars(AllSettled)
  /\ WF_vars(LoopStep)
  /\ WF_vars(WebhookSettle)
  /\ WF_vars(LoopDone)

LiveSpec == Init /\ [][Next]_vars /\ Fairness

\* ---- vocabulary of the properties ----
Range(f) == { f[x] : x \in DOMAIN f }

\* the CheckResult produced for site k
ResultOf(k) == CHOOSE r \in Range(results) : r.site = k

HasResult(k) == \E r \in Range(results) : r.site = k

\* webhook POSTs attempted for site k
PostsFor(k) == { p \in 1..Len(posts) : posts[p].site = k }

\* status is one of the codes listed in an expectedStatus array
Member(status, exp) == exp.type = "array" /\ \E j \in 1..Len(exp.elems) : exp.elems[j] = status

DownSites == { k \in 1..N : HasResult(k) /\ ~ResultOf(k).up }

\* the config file lacks a required top-level field
LacksFields(f) ==
  \/ f.state # "json"
  \/ f.doc.type # "object"
  \/ f.doc.webhook = "undefined"
  \/ ~f.doc.sites.isArray

\* the config file is loaded and passes validation
ConfigPasses(f) ==
  /\ f.state = "json"
  /\ f.doc.type = "object"
  /\ Truthy(f.doc.webhook)
  /\ f.doc.sites.isArray

HasNullEntry(f) == \E k \in 1..Len(f.doc.sites.items) : f.doc.sites.items[k].type = "null"

\* ---- C1 ----
\* C1: a site whose GET returned a status listed in its expectedStatus has
\* result up = true and no webhook POST is ever attempted for it.
C1_UpNoWebhook ==
  \A j \in 1..Len(responses) :
    LET k == responses[j].site IN
      (responses[j].received /\ Member(responses[j].status, sites.items[k].expectedStatus))
        => /\ HasResult(k)
           /\ ResultOf(k).up
           /\ ResultOf(k).statusCode = responses[j].status
           /\ PostsFor(k) = {}

\* a run that exited 0 with an up site next to a notified down site
C1_Witness ==
  /\ pc = "exited"
  /\ exitCode = 0
  /\ posts # <<>>
  /\ \E j \in 1..Len(responses) :
       /\ responses[j].received
       /\ Member(responses[j].status, sites.items[responses[j].site].expectedStatus)

\* ---- C2 ----
\* C2: once a run that reached the evaluation phase has exited, every site whose
\* GET failed or returned a status not listed in expectedStatus has result
\* up = false and exactly one webhook POST, whose httpCode is the observed
\* status, or null when there was no response.
C2_DownOneWebhook ==
  pc = "exited" =>
    \A j \in 1..Len(responses) :
      LET k == responses[j].site IN
        (~responses[j].received \/ ~Member(responses[j].status, sites.items[k].expectedStatus))
          => /\ ~ResultOf(k).up
             /\ Cardinality(PostsFor(k)) = 1
             /\ \A p \in PostsFor(k) :
                  posts[p].payload.httpCode =
                    IF responses[j].received THEN responses[j].status ELSE null

\* ---- C3 ----
\* C3: when a run exits, there is exactly one webhook POST per down site and
\* none per up site, so the number of POSTs equals the number of down sites.
C3_WebhookCount ==
  pc = "exited" =>
    /\ Len(posts) = Cardinality(DownSites)
    /\ \A k \in 1..N :
         HasResult(k) => Cardinality(PostsFor(k)) = IF ResultOf(k).up THEN 0 ELSE 1

\* ---- C4 ----
\* C4: with config.json absent, unreadable, not JSON, or lacking webhook or a
\* sites array, no GET and no POST is ever issued and the exit code is 1.
C4_BadConfigExits1 ==
  LacksFields(file) =>
    /\ gets = <<>>
    /\ posts = <<>>
    /\ pc \notin {"map", "all", "loop"}
    /\ (pc = "exited" => exitCode = 1)

\* a document with a sites array of entries but no webhook has exited
C4_Witness ==
  /\ pc = "exited"
  /\ file.state = "json"
  /\ file.doc.type = "object"
  /\ file.doc.webhook = "undefined"
  /\ file.doc.sites.isArray
  /\ file.doc.sites.items # <<>>

\* ---- C5 ----
\* C5: the exit code is 0 whenever the config passes validation and the loop
\* runs to its end, whatever the check and webhook outcomes; exit code 1 is
\* only produced by a config failure or by the loop throwing (a null entry).
C5_ExitCode ==
  pc = "exited" =>
    (exitCode = 0 <=> (ConfigPasses(file) /\ ~HasNullEntry(file)))

\* exit 0 after a webhook that failed and one that got a non-2xx response
C5_Witness ==
  /\ pc = "exited"
  /\ exitCode = 0
  /\ \E p \in 1..Len(posts) : posts[p].state = "failed"
  /\ \E p \in 1..Len(posts) : posts[p].state = "notok"

\* ---- C6 ----
\* C6: every payload of a run carries the one timestamp `now`, which is taken
\* after all checks have settled and before the first result is evaluated.
C6_OneTimestamp ==
  /\ \A p \in 1..Len(posts) : posts[p].payload.timestamp = now
  /\ \A p, q \in 1..Len(posts) : posts[p].payload.timestamp = posts[q].payload.timestamp
  /\ (pc = "loop" \/ log # <<>> \/ posts # <<>>) => Len(responses) = N
  /\ pc \in {"load", "destructure", "validate", "map", "all"} => (log = <<>> /\ posts = <<>>)

\* two payloads sent while the clock has moved past the batch timestamp
C6_Witness ==
  /\ Len(posts) >= 2
  /\ clock > now

\* ---- C7 ----
\* C7 as stated: sites empty and the webhook property present gives no GET, no
\* POST and exit code 0.
C7_EmptySitesPresent ==
  (file.state = "json" /\ file.doc.type = "object" /\ file.doc.sites.isArray
     /\ file.doc.sites.items = <<>> /\ file.doc.webhook # "undefined")
    => /\ gets = <<>>
       /\ posts = <<>>
       /\ (pc = "exited" => exitCode = 0)

\* C7 amended: sites empty and a truthy webhook gives no GET, no POST and exit
\* code 0.
C7_EmptySitesTruthy ==
  (file.state = "json" /\ file.doc.type = "object" /\ file.doc.sites.isArray
     /\ file.doc.sites.items = <<>> /\ Truthy(file.doc.webhook))
    => /\ gets = <<>>
       /\ posts = <<>>
       /\ (pc = "exited" => exitCode = 0)

\* a run over an empty sites array has exited
C7_Witness ==
  /\ pc = "exited"
  /\ exitCode = 0
  /\ file.state = "json"
  /\ file.doc.type = "object"
  /\ file.doc.sites.isArray
  /\ file.doc.sites.items = <<>>
  /\ Truthy(file.doc.webhook)

\* ---- C8 ----
\* C8: for every CheckResult, statusCode is null exactly when the request got
\* no response, and up holds exactly when a response was received whose status
\* is listed in expectedStatus; for every site entry the loader lets through.
C8_CheckResult ==
  \A j \in 1..Len(responses) :
    LET k == responses[j].site IN
      /\ HasResult(k)
      /\ (ResultOf(k).statusCode = null <=> ~responses[j].received)
      /\ (ResultOf(k).up <=>
            (responses[j].received /\ Member(responses[j].status, sites.items[k].expectedStatus)))

\* ---- C9 ----
\* C9: once any GET is issued, webhook is a non-empty string and sites is an
\* array.
C9_WebhookString ==
  gets # <<>> => (IsString(webhook) /\ webhook # "''" /\ sites.isArray)

\* ---- C10 ----
\* C10: results are evaluated and webhooks dispatched in site-list order, each
\* POST having settled before the next is issued, so at most one POST is in
\* flight.
C10_SequentialWebhooks ==
  /\ \A p, q \in 1..Len(posts) :
       p < q => (posts[p].site < posts[q].site /\ posts[p].state # "pending")
  /\ \A a, b \in 1..Len(log) : a < b => log[a].site < log[b].site
  /\ Cardinality({ p \in 1..Len(posts) : posts[p].state = "pending" }) <= 1

\* the second site's check settled first, yet two POSTs went out in list order
C10_Witness ==
  /\ Len(responses) >= 2
  /\ responses[1].site > responses[2].site
  /\ Len(posts) >= 2
  /\ posts[2].state = "pending"

\* ---- C11 ----
\* checks launched whose fetch has not settled yet
ChecksInFlight == { k \in 1..launched : \A j \in 1..Len(responses) : responses[j].site # k }

\* C11: while any check is still in flight (or not launched yet), no result is
\* evaluated, no UP/DOWN line is logged and no webhook POST is issued; the
\* evaluation phase begins only after every site's check has resolved.
C11_FanInBarrier ==
  (pc = "loop" \/ iter > 0 \/ log # <<>> \/ posts # <<>>)
    => /\ launched = N
       /\ ChecksInFlight = {}
       /\ \A k \in 1..N : HasResult(k)

\* one check has settled down, another is still in flight, nothing evaluated yet
C11_Witness ==
  /\ pc = "all"
  /\ ChecksInFlight # {}
  /\ \E j \in 1..Len(responses) : ~responses[j].received
  /\ log = <<>>
  /\ posts = <<>>

\* ---- C12 ----
\* GET requests issued for site k
GetsFor(k) == { g \in 1..Len(gets) : gets[g] = k }

\* the entry has a url to request
HasUrl(entry) == entry.url # "undefined"

OwnUp(entry, resp) ==
  /\ resp.received
  /\ \/ Member(resp.status, entry.expectedStatus)
     \/ /\ entry.expectedStatus.type = "string"
        /\ IsSubstring(StatusDigits(resp.status), entry.expectedStatus.elems)

\* the statusCode a site's own descriptor and own response determine
OwnCode(entry, resp) ==
  IF resp.received /\ entry.expectedStatus.type \in {"array", "string"} THEN resp.status ELSE null

\* C13: each site's CheckResult is determined by that site's own descriptor and
\* its own request outcome, whatever the other sites did and in whatever order
\* the checks settled; a failed check settles to a result like any other and
\* the batch goes on until every site has one.
C13_Independent ==
  /\ \A j \in 1..Len(responses) :
       LET k == responses[j].site IN
         /\ HasResult(k)
         /\ ResultOf(k).up = OwnUp(sites.items[k], responses[j])
         /\ ResultOf(k).statusCode = OwnCode(sites.items[k], responses[j])
  /\ \A i, j \in 1..Len(responses) :
       ( /\ sites.items[responses[i].site] = sites.items[responses[j].site]
         /\ responses[i].received = responses[j].received
         /\ responses[i].status = responses[j].status )
         => /\ ResultOf(responses[i].site).up = ResultOf(responses[j].site).up
            /\ ResultOf(responses[i].site).statusCode = ResultOf(responses[j].site).statusCode
  /\ \A j \in 1..Len(responses) : \A i \in 1..Len(responses) :
       i # j => responses[i].site # responses[j].site
  /\ (pc \in {"loop", "exited"} /\ ConfigPasses(file)) => \A k \in 1..N : HasResult(k)

\* a check failed first, the other site answered afterwards and is up
C13_Witness ==
  /\ Len(responses) = 2
  /\ ~responses[1].received
  /\ responses[2].received
  /\ ResultOf(responses[2].site).up
  /\ ~ResultOf(responses[1].site).up
  /\ responses[1].site > responses[2].site

C15_Terminates == <>[](pc = "exited")

\* a run over two sites has gone through checks and a webhook and exited
C15_Witness ==
  /\ pc = "exited"
  /\ Len(responses) = 2
  /\ posts # <<>>
  /\ \A p \in 1..Len(posts) : posts[p].state # "pending"

\* ---- C16 ----
\* webhook POSTs issued and not settled yet
PostsInFlight == { p \in 1..Len(posts) : posts[p].state = "pending" }

\* C16: when the process exits with code 0 no GET and no POST is in flight; the
\* POST for the last down site has settled before process.exit(0).
C16_NothingInFlightAtExit0 ==
  (pc = "exited" /\ exitCode = 0)
    => /\ launched = N
       /\ ChecksInFlight = {}
       /\ PostsInFlight = {}
       /\ iter = N

\* exit 0 after the last site of the list was down and its POST settled
C16_Witness ==
  /\ pc = "exited"
  /\ exitCode = 0
  /\ N >= 2
  /\ posts # <<>>
  /\ posts[Len(posts)].site = N
  /\ posts[Len(posts)].state # "pending"

\* ---- C17 ----
\* object entries with a name and a url whose expectedStatus is not an array
NoArrayEntries ==
  { k \in 1..N : /\ sites.items[k].type = "object"
                 /\ sites.items[k].name # "undefined"
                 /\ sites.items[k].url # "undefined"
                 /\ sites.items[k].expectedStatus.type # "array" }

\* C17: an object entry with name and url whose expectedStatus is missing or
\* not an array never crashes the run: its result is down with a null code
\* even if the site responded, and when the run has exited the exit code is 0,
\* every site was evaluated and exactly one webhook with httpCode null was
\* sent for the entry.
C17_MalformedExpectedStatus ==
  \A k \in NoArrayEntries :
    /\ HasResult(k) => (~ResultOf(k).up /\ ResultOf(k).statusCode = null)
    /\ pc = "exited" =>
         /\ exitCode = 0
         /\ Len(log) = N
         /\ Cardinality(PostsFor(k)) = 1
         /\ \A p \in PostsFor(k) : posts[p].payload.httpCode = null

\* ---- C18 ----
\* positions of the null entries / of the entries that are not objects
NullEntries == { k \in 1..N : sites.items[k].type = "null" }

NonObjectEntries == { k \in 1..N : sites.items[k].type # "object" }

\* what C18 says of a run whose first offending entry is at position f: the
\* entry's check is down, nothing at or after f is logged or notified, and on
\* exit the code is 1 and every down site before f has its one settled webhook
StopsAt(f) ==
  /\ HasResult(f) => (~ResultOf(f).up /\ ResultOf(f).statusCode = null)
  /\ \A a \in 1..Len(log) : log[a].site < f
  /\ \A p \in 1..Len(posts) : posts[p].site < f
  /\ pc = "exited" =>
       /\ exitCode = 1
       /\ iter = f
       /\ Len(log) = f - 1
       /\ \A k \in 1..(f - 1) :
            Cardinality(PostsFor(k)) = IF ResultOf(k).up THEN 0 ELSE 1
       /\ \A p \in 1..Len(posts) : posts[p].state # "pending"

\* C18 as stated: a run with a valid config whose sites hold an entry that is not an object stops
\* with exit code 1 at the first such entry.
C18_NonObjectEntryStops ==
  (ConfigPasses(file) /\ NonObjectEntries # {})
    => \E f \in NonObjectEntries : (\A g \in NonObjectEntries : f <= g) /\ StopsAt(f)

\* C18 amended: a run with a valid config whose sites hold a null entry stops with exit code 1 at
\* the first null entry.
C18_NullEntryStops ==
  (ConfigPasses(file) /\ NullEntries # {})
    => \E f \in NullEntries : (\A g \in NullEntries : f <= g) /\ StopsAt(f)

\* exit 1 at a null entry in second place after the first site was notified
C18_Witness ==
  /\ pc = "exited"
  /\ exitCode = 1
  /\ NullEntries = {2}
  /\ Len(posts) = 1
  /\ posts[1].site = 1
  /\ posts[1].state # "pending"

====
